---- MODULE Spec2Model ----
(***************************************************************************)
(* Model of the FastAPI tutorial applications of 01_basics:                *)
(*   04_query_parameters.py  GET /search                                   *)
(*   06_request_body.py      POST /items/, PUT and DELETE /items/{item_id} *)
(*   08_response_models.py   POST /items/, GET /items/, GET /items/{i}     *)
(* Each application is a process of its own with its own store, so each    *)
(* has its own specification.  Strings are sequences of one-character      *)
(* strings, so that len(), lower() and f-string formatting are computed.   *)
(* Prices are counted in cents (1500.00 is 150000).                        *)
(***************************************************************************)
EXTENDS Integers, Sequences, FiniteSets, TLC

VARIABLES fake_db, fake_db_list, request, response

vars == <<fake_db, fake_db_list, request, response>>

---------------------------------------------------------------------------
(* Bounds of the model *)

\* path parameters item_id range over 1..MaxId
MaxId == 3
\* the ordered store of 08_response_models holds at most MaxItems items
MaxItems == 3
\* query parameter limit ranges over -1..MaxSmallLimit and the edge values
MaxSmallLimit == 3

---------------------------------------------------------------------------
(* Status codes and declared constraints *)

HTTP_200_OK == 200
HTTP_201_CREATED == 201
HTTP_204_NO_CONTENT == 204
HTTP_404_NOT_FOUND == 404
HTTP_409_CONFLICT == 409
HTTP_422_UNPROCESSABLE_ENTITY == 422
HTTP_500_INTERNAL_SERVER_ERROR == 500

NameMinLength == 1
NameMaxLength == 100
DescriptionMaxLength == 300
KeywordMinLength == 3
KeywordMaxLength == 50
LimitDefault == 10
LimitGe == 1
LimitLe == 100

---------------------------------------------------------------------------
(* Strings *)

\* Python's None: a value different from every string (its only element is
\* not a character)
None == <<"None">>

\* the string made of n copies of the character c
Rep(c, n) == [i \in 1..n |-> c]

UpperCase == <<"A", "B", "C", "D", "E", "F", "G", "H", "I", "J", "K", "L", "M", "N", "O", "P", "Q", "R", "S", "T", "U", "V", "W", "X", "Y", "Z">>
LowerCase == <<"a", "b", "c", "d", "e", "f", "g", "h", "i", "j", "k", "l", "m", "n", "o", "p", "q", "r", "s", "t", "u", "v", "w", "x", "y", "z">>
Digits == <<"0", "1", "2", "3", "4", "5", "6", "7", "8", "9">>

\* str.lower() on one character
LowerChar(c) ==
    IF \E i \in DOMAIN UpperCase : UpperCase[i] = c
    THEN LowerCase[CHOOSE i \in DOMAIN UpperCase : UpperCase[i] = c]
    ELSE c

\* lower() that leaves the string as it is
lower_identity(s) == s

\* str.lower()
lower(s) == [i \in DOMAIN s |-> LowerChar(s[i])]

RECURSIVE StrNat(_)
StrNat(n) ==
    IF n < 10 THEN <<Digits[n + 1]>>
    ELSE StrNat(n \div 10) \o <<Digits[(n % 10) + 1]>>

\* the decimal text an f-string puts for an integer
StrInt(n) == IF n < 0 THEN <<"-">> \o StrNat(-n) ELSE StrNat(n)

\* sub occurs in s as a contiguous substring
Contains(s, sub) ==
    \E i \in 0..(Len(s) - Len(sub)) : SubSeq(s, i + 1, i + Len(sub)) = sub

TestItem == <<"t", "e", "s", "t", " ", "i", "t", "e", "m">>
Nothing == <<"n", "o", "t", "h", "i", "n", "g">>

---------------------------------------------------------------------------
(* Responses *)

NoRequest == [op |-> "none"]
NoResponse == [status |-> 0, body |-> <<>>]

\* raise HTTPException(status_code=..., detail=...)
HTTPException(status_code, detail) ==
    [status |-> status_code, body |-> [detail |-> detail]]

\* the framework's answer to a request that fails structural validation;
\* detail names the offending fields
RequestValidationError(fields) ==
    [status |-> HTTP_422_UNPROCESSABLE_ENTITY, body |-> [detail |-> fields]]

---------------------------------------------------------------------------
(* The Item schema (06_request_body.Item, 08_response_models.ItemIn) *)

\* A request body is a JSON object: a function from the keys it carries to
\* their values.  The fields of a body that violate the schema:
ItemErrors(body) ==
    {f \in {"name", "price", "in_stock"} : f \notin DOMAIN body}
    \cup (IF "name" \in DOMAIN body
             /\ (Len(body.name) < NameMinLength \/ Len(body.name) > NameMaxLength)
          THEN {"name"} ELSE {})
    \cup (IF "description" \in DOMAIN body
             /\ Len(body.description) > DescriptionMaxLength
          THEN {"description"} ELSE {})
    \cup (IF "price" \in DOMAIN body /\ ~(body.price > 0)
          THEN {"price"} ELSE {})

\* the validated model; description defaults to None
Item(body) ==
    [name |-> body.name,
     description |-> IF "description" \in DOMAIN body THEN body.description ELSE None,
     price |-> body.price,
     in_stock |-> body.in_stock]

\* item.dict()
dict(item) ==
    [name |-> item.name, description |-> item.description,
     price |-> item.price, in_stock |-> item.in_stock]

\* a JSON object without the keys of S
Without(body, S) == [k \in DOMAIN body \ S |-> body[k]]

---------------------------------------------------------------------------
(* 06_request_body.py *)

InitialDb ==
    (1 :> [name |-> <<"L", "a", "p", "t", "o", "p">>,
           description |-> <<"H", "i", "g", "h", "-", "e", "n", "d", " ", "g", "a", "m", "i", "n", "g", " ", "l", "a", "p", "t", "o", "p", ".">>,
           price |-> 150000, in_stock |-> TRUE])
    @@
    (2 :> [name |-> <<"S", "m", "a", "r", "t", "p", "h", "o", "n", "e">>,
           description |-> <<"L", "a", "t", "e", "s", "t", " ", "m", "o", "d", "e", "l", " ", "s", "m", "a", "r", "t", "p", "h", "o", "n", "e", ".">>,
           price |-> 99999, in_stock |-> TRUE])

ItemIds == 1..MaxId

\* the bodies the clients send: every combination of the valid values, with
\* and without the optional description, and one body per schema violation
Names06 ==
    { TestItem,
      <<"T", "e", "s", "t", " ", "I", "t", "e", "m">>,
      <<"T", "e", "s", "t", " ", "I", "t", "e", "m", "s">> }
ValidBodies06 ==
    { Without(b, S) :
        b \in [name : { <<"M", "o", "u", "s", "e">> }, description : { <<"d">> },
               price : { 2999 }, in_stock : BOOLEAN],
        S \in { {}, {"description"} } }
    \cup [name : Names06, description : { <<"d">> },
          price : { 2999 }, in_stock : { TRUE }]
BaseBody ==
    [name |-> <<"M", "o", "u", "s", "e">>, description |-> <<"d">>,
     price |-> 2999, in_stock |-> TRUE]
InvalidBodies ==
    { [BaseBody EXCEPT !.name = <<>>],
      [BaseBody EXCEPT !.name = Rep("n", NameMaxLength + 1)],
      [BaseBody EXCEPT !.description = Rep("d", DescriptionMaxLength + 1)],
      [BaseBody EXCEPT !.price = 0],
      [BaseBody EXCEPT !.price = -1],
      Without(BaseBody, {"name"}),
      Without(BaseBody, {"price"}),
      Without(BaseBody, {"in_stock"}),
      Without([BaseBody EXCEPT !.price = 0], {"description"}) }
Bodies06 == ValidBodies06 \cup InvalidBodies

NotFoundDetail(item_id) ==
    <<"I", "t", "e", "m", " ", "w", "i", "t", "h", " ", "I", "D", " ">>
    \o StrInt(item_id)
    \o <<" ", "n", "o", "t", " ", "f", "o", "u", "n", "d", ".">>

\* create_item that also stores the item, under the next free key
create_item_store(body) ==
    /\ request' = [op |-> "create_item", body |-> body]
    /\ UNCHANGED fake_db_list
    /\ IF ItemErrors(body) # {}
       THEN /\ response' = RequestValidationError(ItemErrors(body))
            /\ UNCHANGED fake_db
       ELSE LET item == Item(body) IN
            IF lower(item.name) = TestItem
            THEN /\ response' = HTTPException(HTTP_409_CONFLICT,
                        <<"I", "t", "e", "m", " ", "w", "i", "t", "h", " ", "t", "h", "i", "s", " ", "n", "a", "m", "e", " ", "a", "l", "r", "e", "a", "d", "y", " ", "e", "x", "i", "s", "t", "s", ".">>)
                 /\ UNCHANGED fake_db
            ELSE /\ fake_db' = [k \in DOMAIN fake_db \cup {MaxId} |->
                                   IF k = MaxId THEN dict(item) ELSE fake_db[k]]
                 /\ response' =
                        [status |-> HTTP_201_CREATED,
                         body |-> [message |-> <<"I", "t", "e", "m", " ", "c", "r", "e", "a", "t", "e", "d", " ", "s", "u", "c", "c", "e", "s", "s", "f", "u", "l", "l", "y", ".">>,
                                   item |-> item]]

\* POST /items/
create_item(body) ==
    /\ request' = [op |-> "create_item", body |-> body]
    /\ UNCHANGED <<fake_db, fake_db_list>>
    /\ IF ItemErrors(body) # {}
       THEN response' = RequestValidationError(ItemErrors(body))
       ELSE LET item == Item(body) IN
            IF lower(item.name) = TestItem
            THEN response' = HTTPException(HTTP_409_CONFLICT,
                     <<"I", "t", "e", "m", " ", "w", "i", "t", "h", " ", "t", "h", "i", "s", " ", "n", "a", "m", "e", " ", "a", "l", "r", "e", "a", "d", "y", " ", "e", "x", "i", "s", "t", "s", ".">>)
            ELSE response' =
                     [status |-> HTTP_201_CREATED,
                      body |-> [message |-> <<"I", "t", "e", "m", " ", "c", "r", "e", "a", "t", "e", "d", " ", "s", "u", "c", "c", "e", "s", "s", "f", "u", "l", "l", "y", ".">>,
                                item |-> item]]

\* update_item that answers with the new item but never writes it
update_item_no_store(item_id, body) ==
    /\ request' = [op |-> "update_item", item_id |-> item_id, body |-> body]
    /\ UNCHANGED <<fake_db, fake_db_list>>
    /\ IF ItemErrors(body) # {}
       THEN response' = RequestValidationError(ItemErrors(body))
       ELSE IF item_id \notin DOMAIN fake_db
       THEN response' = HTTPException(HTTP_404_NOT_FOUND, NotFoundDetail(item_id))
       ELSE response' =
                   [status |-> HTTP_200_OK,
                    body |-> [message |-> <<"I", "t", "e", "m", " ", "I", "D", " ">>
                                          \o StrInt(item_id)
                                          \o <<" ", "u", "p", "d", "a", "t", "e", "d", " ", "s", "u", "c", "c", "e", "s", "s", "f", "u", "l", "l", "y", ".">>,
                              item |-> dict(Item(body))]]

\* update_item that inserts the item when item_id is absent
update_item_upsert(item_id, body) ==
    /\ request' = [op |-> "update_item", item_id |-> item_id, body |-> body]
    /\ UNCHANGED fake_db_list
    /\ IF ItemErrors(body) # {}
       THEN /\ response' = RequestValidationError(ItemErrors(body))
            /\ UNCHANGED fake_db
       ELSE /\ fake_db' = [k \in DOMAIN fake_db \cup {item_id} |->
                              IF k = item_id THEN dict(Item(body)) ELSE fake_db[k]]
            /\ response' =
                   [status |-> HTTP_200_OK,
                    body |-> [message |-> <<"I", "t", "e", "m", " ", "I", "D", " ">>
                                          \o StrInt(item_id)
                                          \o <<" ", "u", "p", "d", "a", "t", "e", "d", " ", "s", "u", "c", "c", "e", "s", "s", "f", "u", "l", "l", "y", ".">>,
                              item |-> fake_db'[item_id]]]

\* update_item that looks item_id up before the body is validated
update_item_lookup_first(item_id, body) ==
    /\ request' = [op |-> "update_item", item_id |-> item_id, body |-> body]
    /\ UNCHANGED fake_db_list
    /\ IF item_id \notin DOMAIN fake_db
       THEN /\ response' = HTTPException(HTTP_404_NOT_FOUND, NotFoundDetail(item_id))
            /\ UNCHANGED fake_db
       ELSE IF ItemErrors(body) # {}
       THEN /\ response' = RequestValidationError(ItemErrors(body))
            /\ UNCHANGED fake_db
       ELSE /\ fake_db' = [fake_db EXCEPT ![item_id] = dict(Item(body))]
            /\ response' =
                   [status |-> HTTP_200_OK,
                    body |-> [message |-> <<"I", "t", "e", "m", " ", "I", "D", " ">>
                                          \o StrInt(item_id)
                                          \o <<" ", "u", "p", "d", "a", "t", "e", "d", " ", "s", "u", "c", "c", "e", "s", "s", "f", "u", "l", "l", "y", ".">>,
                              item |-> fake_db'[item_id]]]

\* PUT /items/{item_id}
update_item(item_id, body) ==
    /\ request' = [op |-> "update_item", item_id |-> item_id, body |-> body]
    /\ UNCHANGED fake_db_list
    /\ IF ItemErrors(body) # {}
       THEN /\ response' = RequestValidationError(ItemErrors(body))
            /\ UNCHANGED fake_db
       ELSE IF item_id \notin DOMAIN fake_db
       THEN /\ response' = HTTPException(HTTP_404_NOT_FOUND, NotFoundDetail(item_id))
            /\ UNCHANGED fake_db
       ELSE /\ fake_db' = [fake_db EXCEPT ![item_id] = dict(Item(body))]
            /\ response' =
                   [status |-> HTTP_200_OK,
                    body |-> [message |-> <<"I", "t", "e", "m", " ", "I", "D", " ">>
                                          \o StrInt(item_id)
                                          \o <<" ", "u", "p", "d", "a", "t", "e", "d", " ", "s", "u", "c", "c", "e", "s", "s", "f", "u", "l", "l", "y", ".">>,
                              item |-> fake_db'[item_id]]]

\* delete_item that answers 204 for an absent item_id as well
delete_item_idempotent(item_id) ==
    /\ request' = [op |-> "delete_item", item_id |-> item_id]
    /\ UNCHANGED fake_db_list
    /\ fake_db' = [k \in DOMAIN fake_db \ {item_id} |-> fake_db[k]]
    /\ response' = [status |-> HTTP_204_NO_CONTENT, body |-> <<>>]

\* DELETE /items/{item_id}
delete_item(item_id) ==
    /\ request' = [op |-> "delete_item", item_id |-> item_id]
    /\ UNCHANGED fake_db_list
    /\ IF item_id \notin DOMAIN fake_db
       THEN /\ response' = HTTPException(HTTP_404_NOT_FOUND, NotFoundDetail(item_id))
            /\ UNCHANGED fake_db
       ELSE /\ fake_db' = [k \in DOMAIN fake_db \ {item_id} |-> fake_db[k]]
            /\ response' = [status |-> HTTP_204_NO_CONTENT, body |-> <<>>]

---------------------------------------------------------------------------
(* 08_response_models.py *)

\* the fields of a stored dict that violate the response model ItemOut
\* (name: str, description: str, price: float): None is not a str
ItemOutErrors(d) == IF d.description = None THEN {"description"} ELSE {}

\* a response model that lets every field of the stored dict through
ItemOut_keep_all(d) == d

\* the response model's output: the declared fields only
ItemOut(d) == [name |-> d.name, description |-> d.description, price |-> d.price]

\* the framework's answer when the handler's return value fails the
\* response model
ResponseValidationError ==
    [status |-> HTTP_500_INTERNAL_SERVER_ERROR,
     body |-> <<"I", "n", "t", "e", "r", "n", "a", "l", " ", "S", "e", "r", "v", "e", "r", " ", "E", "r", "r", "o", "r">>]

Names08 == { <<"P", "e", "n">>, <<"M", "o", "u", "s", "e">> }
ValidBodies08 ==
    { Without(b, S) :
        b \in [name : Names08, description : { <<"d">> },
               price : { 2999 }, in_stock : BOOLEAN],
        S \in { {}, {"description"} } }
Bodies08 == ValidBodies08 \cup InvalidBodies

ItemIndexes == -1..(MaxItems + 1)

\* POST /items/ with response_model=ItemOut
create_item08(body) ==
    /\ Len(fake_db_list) < MaxItems
    /\ request' = [op |-> "create_item08", body |-> body]
    /\ UNCHANGED fake_db
    /\ IF ItemErrors(body) # {}
       THEN /\ response' = RequestValidationError(ItemErrors(body))
            /\ UNCHANGED fake_db_list
       ELSE LET item == Item(body) IN
            /\ fake_db_list' = Append(fake_db_list, dict(item))
            /\ response' =
                   IF ItemOutErrors(item) # {}
                   THEN ResponseValidationError
                   ELSE [status |-> HTTP_201_CREATED, body |-> ItemOut(item)]

\* GET /items/ with response_model=List[ItemOut]
get_all_items ==
    /\ request' = [op |-> "get_all_items"]
    /\ UNCHANGED <<fake_db, fake_db_list>>
    /\ response' =
           IF \E i \in DOMAIN fake_db_list : ItemOutErrors(fake_db_list[i]) # {}
           THEN ResponseValidationError
           ELSE [status |-> HTTP_200_OK,
                 body |-> [i \in DOMAIN fake_db_list |-> ItemOut(fake_db_list[i])]]

\* GET /items/{item_index} with response_model=ItemOut
get_item(item_index) ==
    /\ request' = [op |-> "get_item", item_index |-> item_index]
    /\ UNCHANGED <<fake_db, fake_db_list>>
    /\ IF item_index < 0 \/ item_index >= Len(fake_db_list)
       THEN response' = HTTPException(HTTP_404_NOT_FOUND,
                <<"I", "t", "e", "m", " ", "a", "t", " ", "i", "n", "d", "e", "x", " ">>
                \o StrInt(item_index)
                \o <<" ", "n", "o", "t", " ", "f", "o", "u", "n", "d", ".">>)
       ELSE LET d == fake_db_list[item_index + 1] IN
            response' =
                IF ItemOutErrors(d) # {}
                THEN ResponseValidationError
                ELSE [status |-> HTTP_200_OK, body |-> ItemOut(d)]

---------------------------------------------------------------------------
(* 04_query_parameters.py *)

Keywords ==
    { <<>>,
      <<"n", "o">>,
      <<"a", "b", "c">>,
      <<"p", "h", "o", "n", "e">>,
      Nothing,
      <<"N", "o", "t", "h", "i", "n", "g">>,
      <<"N", "O", "T", "H", "I", "N", "G">>,
      <<"n", "o", "t", "h", "i", "n", "g", "s">>,
      <<"n", "o", "t", "h", "i", "n">>,
      Rep("k", KeywordMaxLength),
      Rep("k", KeywordMaxLength + 1) }
Limits == (-1..MaxSmallLimit) \cup {LimitDefault, LimitLe, LimitLe + 1}

\* a query string is a function from the parameters it carries to their
\* values
Queries ==
    { Without(q, S) :
        q \in [keyword : Keywords, limit : Limits],
        S \in { {}, {"limit"}, {"keyword"} } }

\* the query parameters that violate their declaration
QueryErrors(q) ==
    (IF "keyword" \notin DOMAIN q
        \/ Len(q.keyword) < KeywordMinLength
        \/ Len(q.keyword) > KeywordMaxLength
     THEN {"keyword"} ELSE {})
    \cup (IF "limit" \in DOMAIN q /\ (q.limit < LimitGe \/ q.limit > LimitLe)
          THEN {"limit"} ELSE {})

\* GET /search
search_items(q) ==
    /\ request' = [op |-> "search_items", query |-> q]
    /\ UNCHANGED <<fake_db, fake_db_list>>
    /\ IF QueryErrors(q) # {}
       THEN response' = RequestValidationError(QueryErrors(q))
       ELSE LET keyword == q.keyword
                limit == IF "limit" \in DOMAIN q THEN q.limit ELSE LimitDefault
            IN
            IF lower(keyword) = Nothing
            THEN response' = HTTPException(HTTP_404_NOT_FOUND,
                     <<"N", "o", " ", "i", "t", "e", "m", "s", " ", "f", "o", "u", "n", "d", " ", "m", "a", "t", "c", "h", "i", "n", "g", " ", "k", "e", "y", "w", "o", "r", "d", " ", "'">>
                     \o keyword \o <<"'", ".">>)
            ELSE response' =
                     [status |-> HTTP_200_OK,
                      body |-> [keyword |-> keyword,
                                limit |-> limit,
                                results |->
                                    [i \in 1..limit |->
                                        <<"I", "t", "e", "m", " ">> \o StrInt(i)
                                        \o <<" ", "r", "e", "l", "a", "t", "e", "d", " ", "t", "o", " ", "'">>
                                        \o keyword \o <<"'">>]]]

---------------------------------------------------------------------------
(* Specifications *)

\* the state of the three applications after import, before any request
Init ==
    /\ fake_db = InitialDb
    /\ fake_db_list = <<>>
    /\ request = NoRequest
    /\ response = NoResponse

Next04 ==
    \E q \in Queries : search_items(q)

Next06 ==
    \/ \E body \in Bodies06 : create_item(body)
    \/ \E item_id \in ItemIds, body \in Bodies06 : update_item(item_id, body)
    \/ \E item_id \in ItemIds : delete_item(item_id)

Next08 ==
    \/ \E body \in Bodies08 : create_item08(body)
    \/ get_all_items
    \/ \E item_index \in ItemIndexes : get_item(item_index)

\* 04_query_parameters.py
Spec04 == Init /\ [][Next04]_vars

\* 06_request_body.py
Spec06 == Init /\ [][Next06]_vars

\* 08_response_models.py
Spec08 == Init /\ [][Next08]_vars

\* the endpoints with declared constraints and a domain rule or a store
\* behind them: 04_query_parameters.py and 06_request_body.py side by side
Next0406 == Next04 \/ Next06
Spec0406 == Init /\ [][Next0406]_vars

---------------------------------------------------------------------------
(* Properties.  The requests they speak of are told apart by the sets the  *)
(* bodies and queries were drawn from, not by the validators of the model. *)

OutputFields == {"name", "description", "price"}

\* the description a body submits: None when it omits it
SubmittedDescription(body) ==
    IF "description" \in DOMAIN body THEN body.description ELSE None

\* the four fields of item are the ones body submits
EqualsBody(item, body) ==
    /\ DOMAIN item = {"name", "description", "price", "in_stock"}
    /\ item.name = body.name
    /\ item.description = SubmittedDescription(body)
    /\ item.price = body.price
    /\ item.in_stock = body.in_stock

\* out is the output shape of the stored or submitted item
IsOutputOf(out, item) ==
    /\ DOMAIN out = OutputFields
    /\ out.name = item.name
    /\ out.description = item.description
    /\ out.price = item.price

\* C1: filtered create answers every schema-valid body, with or without a
\* description, with 201 and the output shape and appends exactly that item
\* to the ordered store; any other body gets 422 and nothing is appended.
C1_FilteredCreateSucceeds ==
    [][request'.op = "create_item08" =>
        IF request'.body \in ValidBodies08
        THEN /\ response'.status = HTTP_201_CREATED
             /\ DOMAIN response'.body = OutputFields
             /\ response'.body.name = request'.body.name
             /\ response'.body.description = SubmittedDescription(request'.body)
             /\ response'.body.price = request'.body.price
             /\ Len(fake_db_list') = Len(fake_db_list) + 1
             /\ SubSeq(fake_db_list', 1, Len(fake_db_list)) = fake_db_list
             /\ EqualsBody(fake_db_list'[Len(fake_db_list')], request'.body)
        ELSE /\ response'.status = HTTP_422_UNPROCESSABLE_ENTITY
             /\ fake_db_list' = fake_db_list]_vars

\* C2: list items always answers 200 with one output-shape entry per stored
\* item, in the order of creation.
C2_ListAlwaysSucceeds ==
    request.op = "get_all_items" =>
        /\ response.status = HTTP_200_OK
        /\ Len(response.body) = Len(fake_db_list)
        /\ \A i \in DOMAIN fake_db_list :
               IsOutputOf(response.body[i], fake_db_list[i])

\* C3: update of a present item_id with a schema-valid body answers 200,
\* stores the four submitted fields under item_id, answers with the stored
\* value and leaves every other key as it was.
C3_UpdateStoresBody ==
    [][(/\ request'.op = "update_item"
        /\ request'.body \in ValidBodies06
        /\ request'.item_id \in DOMAIN fake_db)
       => /\ response'.status = HTTP_200_OK
          /\ DOMAIN fake_db' = DOMAIN fake_db
          /\ EqualsBody(fake_db'[request'.item_id], request'.body)
          /\ response'.body.item = fake_db'[request'.item_id]
          /\ \A k \in DOMAIN fake_db \ {request'.item_id} :
                 fake_db'[k] = fake_db[k]]_vars

C3_Witness ==
    /\ request.op = "update_item"
    /\ response.status = HTTP_200_OK
    /\ request.item_id = 2
    /\ "description" \notin DOMAIN request.body
    /\ fake_db[2].description = None
    /\ 1 \in DOMAIN fake_db
    /\ fake_db[1] = InitialDb[1]

C6_OutputFiltering ==
    /\ \A i \in DOMAIN fake_db_list : "in_stock" \in DOMAIN fake_db_list[i]
    /\ (request.op = "create_item08" /\ response.status = HTTP_201_CREATED)
       => /\ DOMAIN response.body = OutputFields
          /\ response.body.name = request.body.name
          /\ response.body.description = SubmittedDescription(request.body)
          /\ response.body.price = request.body.price
    /\ (request.op = "get_all_items" /\ response.status = HTTP_200_OK)
       => /\ Len(response.body) = Len(fake_db_list)
          /\ \A i \in DOMAIN response.body :
                 IsOutputOf(response.body[i], fake_db_list[i])
    /\ (request.op = "get_item" /\ response.status = HTTP_200_OK)
       => IsOutputOf(response.body, fake_db_list[request.item_index + 1])
    /\ (request.op \in {"create_item08", "get_all_items", "get_item"}
        /\ response.status \notin {HTTP_200_OK, HTTP_201_CREATED})
       => response.status \in {HTTP_404_NOT_FOUND, HTTP_422_UNPROCESSABLE_ENTITY,
                               HTTP_500_INTERNAL_SERVER_ERROR}

C6_Witness ==
    /\ request.op = "get_all_items"
    /\ response.status = HTTP_200_OK
    /\ Len(response.body) = 2
    /\ fake_db_list[1].in_stock = FALSE
    /\ fake_db_list[2].in_stock = TRUE

\* C7: get item by index answers 404 exactly when item_index is negative or
\* at least the store length, answers every other index with the output
\* shape of the item created at that position, and no request removes,
\* reorders or overwrites a stored item.
C7_GetByIndex ==
    [][/\ request'.op = "get_item"
          => /\ (response'.status = HTTP_404_NOT_FOUND)
                 <=> (request'.item_index < 0
                      \/ request'.item_index >= Len(fake_db_list))
             /\ (request'.item_index >= 0 /\ request'.item_index < Len(fake_db_list))
                => /\ response'.status = HTTP_200_OK
                   /\ IsOutputOf(response'.body, fake_db_list[request'.item_index + 1])
       /\ Len(fake_db_list') >= Len(fake_db_list)
       /\ \A i \in DOMAIN fake_db_list : fake_db_list'[i] = fake_db_list[i]]_vars

InvalidQuery(q) ==
    \/ "keyword" \notin DOMAIN q
    \/ Len(q.keyword) < 3
    \/ Len(q.keyword) > 50
    \/ "limit" \in DOMAIN q /\ (q.limit < 1 \/ q.limit > 100)

\* C8: a request that fails structural validation is answered 422 and
\* changes no store: search with a keyword shorter than 3 or longer than 50
\* or a limit outside [1,100] never gets the 404 of the sentinel check, and
\* create or update with an invalid body gets 422 even for an absent item_id.
C8_ValidationFirst ==
    [][/\ (request'.op = "search_items" /\ InvalidQuery(request'.query))
          => /\ response'.status = HTTP_422_UNPROCESSABLE_ENTITY
             /\ fake_db' = fake_db /\ fake_db_list' = fake_db_list
       /\ (request'.op \in {"create_item", "update_item"}
           /\ request'.body \in InvalidBodies)
          => /\ response'.status = HTTP_422_UNPROCESSABLE_ENTITY
             /\ fake_db' = fake_db /\ fake_db_list' = fake_db_list]_vars

C8_Witness ==
    /\ request.op = "update_item"
    /\ request.body \in InvalidBodies
    /\ request.item_id \notin DOMAIN fake_db
    /\ response.status = HTTP_422_UNPROCESSABLE_ENTITY
    /\ fake_db # InitialDb

SentinelKeywords ==
    { <<"n", "o", "t", "h", "i", "n", "g">>,
      <<"N", "o", "t", "h", "i", "n", "g">>,
      <<"N", "O", "T", "H", "I", "N", "G">> }

QuotesKeyword(detail, keyword) == Contains(detail, <<"'">> \o keyword \o <<"'">>)

\* C9 as stated: a keyword that is "nothing" up to case gets 404 whatever
\* the limit, omitted or given with any value, the detail quoting the keyword.
C9_NothingAnyLimit ==
    (/\ request.op = "search_items"
     /\ "keyword" \in DOMAIN request.query
     /\ request.query.keyword \in SentinelKeywords)
    => /\ response.status = HTTP_404_NOT_FOUND
       /\ QuotesKeyword(response.body.detail, request.query.keyword)

\* C9 amended: a keyword that is "nothing" up to case gets 404, the detail
\* quoting the keyword as submitted, when limit is omitted or lies in
\* [1,100]; with a limit outside [1,100] the answer is 422.
C9_NothingValidLimit ==
    (/\ request.op = "search_items"
     /\ "keyword" \in DOMAIN request.query
     /\ request.query.keyword \in SentinelKeywords)
    => IF "limit" \notin DOMAIN request.query
          \/ (request.query.limit >= 1 /\ request.query.limit <= 100)
       THEN /\ response.status = HTTP_404_NOT_FOUND
            /\ QuotesKeyword(response.body.detail, request.query.keyword)
       ELSE response.status = HTTP_422_UNPROCESSABLE_ENTITY

C9_Witness ==
    /\ request.op = "search_items"
    /\ "limit" \notin DOMAIN request.query
    /\ "keyword" \in DOMAIN request.query
    /\ request.query.keyword = <<"N", "O", "T", "H", "I", "N", "G">>
    /\ response.status = HTTP_404_NOT_FOUND

SentinelNames ==
    { <<"t", "e", "s", "t", " ", "i", "t", "e", "m">>,
      <<"T", "e", "s", "t", " ", "I", "t", "e", "m">> }

\* C10: create with a schema-valid body answers 409 exactly when the name is
\* "test item" up to case, and otherwise 201 with the submitted item under
\* the item key and a confirmation message; the keyed store never changes.
C10_CreateEchoes ==
    [][(request'.op = "create_item" /\ request'.body \in ValidBodies06)
       => /\ (response'.status = HTTP_409_CONFLICT)
              <=> (request'.body.name \in SentinelNames)
          /\ (request'.body.name \notin SentinelNames)
             => /\ response'.status = HTTP_201_CREATED
                /\ DOMAIN response'.body = {"message", "item"}
                /\ EqualsBody(response'.body.item, request'.body)
                /\ Len(response'.body.message) > 0
          /\ fake_db' = fake_db]_vars

C10_Witness ==
    /\ request.op = "create_item"
    /\ request.body \in ValidBodies06
    /\ request.body.name = <<"T", "e", "s", "t", " ", "I", "t", "e", "m">>
    /\ response.status = HTTP_409_CONFLICT
    /\ fake_db = InitialDb

====
